---- MODULE Spec2Model ----
(***************************************************************************)
(* Model of rmja/buffered-io: BufferedWrite (src/src/asynch/write.rs,      *)
(* src/src/write/asynch.rs) and BufferedRead (src/src/read.rs,             *)
(* src/src/asynch/read.rs).  Each wrapper is a state machine over a        *)
(* borrowed fixed-size buffer; every call into the wrapped stream `inner`  *)
(* is a step of its own (it is the only place an async operation can       *)
(* suspend), and the environment decides how the inner call ends: how      *)
(* many bytes it takes or gives, or an error.                              *)
(*                                                                         *)
(* A behaviour follows ONE wrapper instance: `who` says whether it is the  *)
(* writer or the reader; the other wrapper's variables stay at rest.       *)
(***************************************************************************)
EXTENDS Integers, Sequences, FiniteSets, TLC

\* ---------------------------------------------------------------- bounds
\* buf.len(): the capacity C of the caller-supplied buffer
Cap == 3
\* number of bytes the writer's caller wants to send (bytes 1..SrcLen)
SrcLen == 4
\* number of bytes the reader's inner stream holds before end-of-stream
StreamLen == 4
\* how many times the inner stream may fail in one behaviour
MaxErrs == 1

VARIABLES
    who,        \* "writer" or "reader": the wrapper this behaviour follows
    \* ---- BufferedWrite { inner, buf, pos }
    inner,      \* the bytes the inner writer has received so far, in order
    buf,        \* the borrowed buffer, Cap bytes
    pos,        \* number of buffered bytes not yet written to inner
    wpc,        \* where the writer is: "idle", or the inner call it awaits
    src,        \* argument of the write call in progress / last made
    new_pos,    \* local of write(): pos + buffered
    wa,         \* bytes of buf[..pos] the running write_all has got through
    \* ---- the writer's caller and what it has observed
    cursor,     \* bytes of Src the writer has reported as accepted
    accepted,   \* bytes the writer took responsibility for (and not cleared)
    pos0,       \* pos when the call in progress / last made began
    held0,      \* buf[..pos] when the call in progress / last made began
    torn,       \* TRUE once a write_all failed after inner took part of it
    retry,      \* TRUE when the call in progress / last made repeats the call
                \* that failed just before it (same operation, same slice)
    \* ---- BufferedRead { inner, buf, offset, available }
    rinner,     \* number of bytes the inner reader has handed out so far
    rbuf,       \* the borrowed buffer, Cap bytes
    offset,     \* index of the first unread buffered byte
    available,  \* number of unread buffered bytes
    rpc,        \* where the reader is: "idle", or the inner call it awaits
    dst,        \* length of the destination of the read in progress
    delivered,  \* bytes handed to the reader's caller so far, in order
    off0,       \* offset when the call in progress / last made began
    avail0,     \* available when the call in progress / last made began
    preload,    \* the unread bytes new_with_data was given
    \* ---- shared observation
    ret,        \* what the last completed call returned
    calls,      \* calls into inner made by the call in progress / last made
    errs        \* failures of inner so far

wvars == <<inner, buf, pos, wpc, src, new_pos, wa, cursor, accepted, pos0, held0,
           torn, retry>>
rvars == <<rinner, rbuf, offset, available, rpc, dst, delivered, off0, avail0,
           preload>>
vars == <<who, wvars, rvars, ret, calls, errs>>

Min(a, b) == IF a < b THEN a ELSE b

\* The data the writer's caller sends: distinct bytes, so that a lost, repeated
\* or reordered byte shows.
Src == [i \in 1..SrcLen |-> i]

\* Bytes found in a buffer handed to new_with_data: slot i holds 10 + i.
Preloaded == [i \in 1..Cap |-> 10 + i]

\* [0; N]: the zeroed buffer the tests hand to new().
Zeroed == [i \in 1..Cap |-> 0]

Take(s, n) == SubSeq(s, 1, n)

NoRet == [op |-> "none", path |-> "none", ok |-> TRUE, n |-> 0, data |-> <<>>]

Ret(op, path, ok, n, data) ==
    [op |-> op, path |-> path, ok |-> ok, n |-> n, data |-> data]

Call(f, arg) == [f |-> f, arg |-> arg]

\* ------------------------------------------------- the inner writer
\* UnstableWrite::write: Ok(written) with 0 < written <= buf.len(), appending
\* buf[..written]; or an error, appending nothing.
InnerWriteCounts(len) == 1..len

CanFail == errs < MaxErrs

\* ------------------------------------------------- BufferedWrite: helpers
\* let buffered = usize::min(buf.len(), self.buf.len() - self.pos);
Buffered(len, p) == Min(len, Cap - p)

\* faulty variant of CopyFromSlice: the slice is copied to the start of the buffer
CopyFromSlice_AtStart(b, p, s, n) ==
    [i \in 1..Cap |-> IF i <= n THEN s[i] ELSE b[i]]

\* self.buf[new_pos..new_pos + buffered].copy_from_slice(&buf[..buffered]);
CopyFromSlice(b, p, s, n) ==
    [i \in 1..Cap |-> IF p < i /\ i <= p + n THEN s[i - p] ELSE b[i]]

\* faulty variant of CopyWithin: the unwritten tail is left where it is
CopyWithin_NoShift(b, from, to) == b

\* self.buf.copy_within(written..new_pos, 0);
CopyWithin(b, from, to) ==
    [i \in 1..Cap |-> IF i <= to - from THEN b[from + i] ELSE b[i]]

\* faulty variant of CommitPos: the partial commit forgets the unwritten tail
CommitPos_DropTail(np, written) == 0

\* if written < new_pos { self.pos = new_pos - written } else { self.pos = 0 }
CommitPos(np, written) == IF written < np THEN np - written ELSE 0

\* if written < new_pos { self.buf.copy_within(written..new_pos, 0) }
CommitBuf(b, np, written) == IF written < np THEN CopyWithin(b, written, np) ELSE b

\* ------------------------------------------------- BufferedWrite: construction
\* BufferedWrite::new(inner, buf): Self { inner, buf, pos: 0 }
\* BufferedWrite::new_with_data(inner, buf, written): pos: written (unchecked)
WriterInit(maxWritten) ==
    /\ who = "writer"
    /\ inner = <<>>
    /\ \E written \in 0..maxWritten :
          /\ pos = written
          /\ buf = IF written = 0 THEN Zeroed ELSE Preloaded
          /\ accepted = Take(Preloaded, Min(written, Cap))
          /\ pos0 = written
    /\ held0 = Take(buf, Min(pos, Cap))
    /\ wpc = "idle"
    /\ src = <<>>
    /\ new_pos = 0
    /\ wa = 0
    /\ cursor = 0
    /\ torn = FALSE
    /\ retry = FALSE

WriterAtRest ==
    /\ inner = <<>> /\ buf = Zeroed /\ pos = 0 /\ wpc = "idle" /\ src = <<>>
    /\ new_pos = 0 /\ wa = 0 /\ cursor = 0 /\ accepted = <<>> /\ pos0 = 0
    /\ held0 = <<>> /\ torn = FALSE /\ retry = FALSE

\* ------------------------------------------------- BufferedWrite::write
\* faulty variant of WriteBypasses: the fast path is taken whatever pos is
WriteBypasses_AnyPos(p, len) == len >= Cap

\* faulty variant of WriteBypasses: a slice of exactly buf.len() is buffered
WriteBypasses_Strict(p, len) == p = 0 /\ len > Cap

\* if self.pos == 0 && buf.len() >= self.buf.len()    the fast path is taken
WriteBypasses(p, len) == p = 0 /\ len >= Cap

WIdle == who = "writer" /\ wpc = "idle"

\* The slice the caller submits next: the bytes of Src after those already
\* accepted (after an error or a partial acceptance it resubmits from there).
Slice(len) == SubSeq(Src, cursor + 1, cursor + len)

\* the call that returned last is a write whose buffer-full commit failed / a
\* flush that failed
LastFailed(op) ==
    /\ ret.op = op /\ ~ret.ok
    /\ op = "write" => ret.path = "commit"

\* what the observer notes when a call begins
Enter(s, again) ==
    /\ src' = s
    /\ pos0' = pos
    /\ held0' = Take(buf, Min(pos, Cap))
    /\ retry' = again

\* if buf.is_empty() { return Ok(0); }
WriteEmpty ==
    /\ WIdle
    /\ Enter(<<>>, FALSE)
    /\ ret' = Ret("write", "empty", TRUE, 0, <<>>)
    /\ calls' = <<>>
    /\ UNCHANGED <<who, inner, buf, pos, wpc, new_pos, wa, cursor, accepted, torn,
                   rvars, errs>>

\* if self.pos == 0 && buf.len() >= self.buf.len() { return self.inner.write(buf).await; }
\* up to the await
WriteBypassCall ==
    /\ WIdle
    /\ \E len \in 1..(SrcLen - cursor) :
          /\ WriteBypasses(pos, len)
          /\ Enter(Slice(len), LastFailed("write") /\ Slice(len) = src)
          /\ calls' = <<Call("write", Slice(len))>>
    /\ wpc' = "write_bypass"
    /\ UNCHANGED <<who, inner, buf, pos, new_pos, wa, cursor, accepted, torn,
                   rvars, ret, errs>>

\* the bypassing inner.write(buf) returns Ok(n): returned unchanged
WriteBypassOk ==
    /\ who = "writer" /\ wpc = "write_bypass"
    /\ \E n \in InnerWriteCounts(Len(src)) :
          /\ inner' = inner \o Take(src, n)
          /\ ret' = Ret("write", "bypass", TRUE, n, <<>>)
          /\ cursor' = cursor + n
          /\ accepted' = accepted \o Take(src, n)
    /\ wpc' = "idle"
    /\ UNCHANGED <<who, buf, pos, src, new_pos, wa, pos0, held0, torn, retry,
                   rvars, calls, errs>>

\* the bypassing inner.write(buf) returns Err(e): returned unchanged
WriteBypassErr ==
    /\ who = "writer" /\ wpc = "write_bypass"
    /\ CanFail
    /\ errs' = errs + 1
    /\ ret' = Ret("write", "bypass", FALSE, 0, <<>>)
    /\ wpc' = "idle"
    /\ UNCHANGED <<who, inner, buf, pos, src, new_pos, wa, cursor, accepted, pos0,
                   held0, torn, retry, rvars, calls>>

\* assert!(buffered > 0) fails when pos == buf.len(); with pos > buf.len() the
\* subtraction buf.len() - pos overflows (debug) or the slice index is out of
\* range (release): the call panics before it changes anything.
WritePanic ==
    /\ WIdle
    /\ pos >= Cap
    /\ \E len \in 1..(SrcLen - cursor) :
          Enter(Slice(len), LastFailed("write") /\ Slice(len) = src)
    /\ wpc' = "panicked"
    /\ calls' = <<>>
    /\ UNCHANGED <<who, inner, buf, pos, new_pos, wa, cursor, accepted, torn,
                   rvars, ret, errs>>

\* copy into buf[pos..]; if new_pos < self.buf.len() { self.pos = new_pos; } Ok(buffered)
WriteBuffer ==
    /\ WIdle
    /\ pos < Cap
    /\ \E len \in 1..(SrcLen - cursor) :
          LET s == Slice(len)
              buffered == Buffered(len, pos)
          IN  /\ ~WriteBypasses(pos, len)
              /\ pos + buffered < Cap
              /\ Enter(s, LastFailed("write") /\ s = src)
              /\ buf' = CopyFromSlice(buf, pos, s, buffered)
              /\ pos' = pos + buffered
              /\ ret' = Ret("write", "buffer", TRUE, buffered, <<>>)
              /\ cursor' = cursor + buffered
              /\ accepted' = accepted \o Take(s, buffered)
    /\ calls' = <<>>
    /\ UNCHANGED <<who, inner, wpc, new_pos, wa, torn, rvars, errs>>

\* faulty variant of CommitAwaitPos: self.pos = new_pos is assigned before the
\* write of the full buffer is awaited
CommitAwaitPos_Early(p, np) == np

\* self.pos while self.inner.write(self.buf) is awaited: "We only assign
\* self.pos _after_ we are sure that the write has completed successfully"
CommitAwaitPos(p, np) == p

\* copy into buf[pos..]; new_pos == self.buf.len(): self.inner.write(self.buf).await
\* up to the await.  self.pos is not assigned yet.
WriteFullCall ==
    /\ WIdle
    /\ pos < Cap
    /\ \E len \in 1..(SrcLen - cursor) :
          LET s == Slice(len)
              buffered == Buffered(len, pos)
          IN  /\ ~WriteBypasses(pos, len)
              /\ ~(pos + buffered < Cap)
              /\ Enter(s, LastFailed("write") /\ s = src)
              /\ buf' = CopyFromSlice(buf, pos, s, buffered)
              /\ new_pos' = pos + buffered
              /\ pos' = CommitAwaitPos(pos, pos + buffered)
              /\ calls' = <<Call("write", CopyFromSlice(buf, pos, s, buffered))>>
    /\ wpc' = "write_commit"
    /\ UNCHANGED <<who, inner, wa, cursor, accepted, torn, rvars,
                   ret, errs>>

\* let written = ...?; if written < new_pos { copy_within; pos = new_pos - written }
\* else { pos = 0 }; Ok(buffered)
WriteCommitOk ==
    /\ who = "writer" /\ wpc = "write_commit"
    /\ \E written \in InnerWriteCounts(Len(buf)) :
          /\ inner' = inner \o Take(buf, written)
          /\ buf' = CommitBuf(buf, new_pos, written)
          /\ pos' = CommitPos(new_pos, written)
    /\ ret' = Ret("write", "commit", TRUE, new_pos - pos, <<>>)
    /\ cursor' = cursor + (new_pos - pos)
    /\ accepted' = accepted \o Take(src, new_pos - pos)
    /\ wpc' = "idle"
    /\ new_pos' = 0
    /\ UNCHANGED <<who, src, wa, pos0, held0, torn, retry, rvars, calls, errs>>

\* faulty variant of WriteCommitErrPos: self.pos = new_pos assigned before the write
WriteCommitErrPos_Advanced == new_pos

\* self.inner.write(self.buf).await? returns the error; self.pos was never assigned
WriteCommitErrPos == pos

WriteCommitErr ==
    /\ who = "writer" /\ wpc = "write_commit"
    /\ CanFail
    /\ errs' = errs + 1
    /\ pos' = WriteCommitErrPos
    /\ ret' = Ret("write", "commit", FALSE, 0, <<>>)
    /\ wpc' = "idle"
    /\ new_pos' = 0
    /\ UNCHANGED <<who, inner, buf, src, wa, cursor, accepted, pos0, held0, torn,
                   retry, rvars, calls>>

\* ------------------------------------------------- BufferedWrite::flush
\* if self.pos > 0 { self.inner.write_all(&self.buf[..self.pos]).await ...
\* up to the await.  &self.buf[..self.pos] panics when pos > buf.len().
FlushCall ==
    /\ WIdle
    /\ pos > 0 /\ pos <= Cap
    /\ Enter(<<>>, LastFailed("flush"))
    /\ wa' = 0
    /\ calls' = <<Call("write_all", Take(buf, pos))>>
    /\ wpc' = "flush_write_all"
    /\ UNCHANGED <<who, inner, buf, pos, new_pos, cursor, accepted, torn, rvars,
                   ret, errs>>

FlushPanic ==
    /\ WIdle
    /\ pos > Cap
    /\ Enter(<<>>, FALSE)
    /\ wpc' = "panicked"
    /\ calls' = <<>>
    /\ UNCHANGED <<who, inner, buf, pos, new_pos, wa, cursor, accepted, torn,
                   rvars, ret, errs>>

\* faulty variant of FlushDonePos: pos is not reset after the write_all
FlushDonePos_Kept == pos

\* self.pos = 0; assigned once write_all has returned Ok(())
FlushDonePos == 0

\* inner's write_all takes the next n bytes of buf[..pos] (it calls inner.write
\* until the slice is empty); when the slice is exhausted it returns Ok(()), and
\* flush goes on: self.pos = 0; self.inner.flush().await
FlushWriteAllOk ==
    /\ who = "writer" /\ wpc = "flush_write_all"
    /\ \E n \in InnerWriteCounts(pos - wa) :
          /\ inner' = inner \o SubSeq(buf, wa + 1, wa + n)
          /\ IF wa + n = pos
                THEN /\ pos' = FlushDonePos
                     /\ wa' = 0
                     /\ wpc' = "flush_inner"
                     /\ calls' = Append(calls, Call("flush", <<>>))
                ELSE /\ wa' = wa + n
                     /\ UNCHANGED <<pos, wpc, calls>>
    /\ UNCHANGED <<who, buf, src, new_pos, cursor, accepted, pos0, held0, torn,
                   retry, rvars, ret, errs>>

\* self.pos after write_all(..).await? has returned the error: never assigned
FlushErrPos == pos

\* faulty variant of FlushErrCalls: the error of write_all is held back until after inner.flush()
FlushErrCalls_ThenFlush == Append(calls, Call("flush", <<>>))

\* what flush does after write_all failed: `?` returns, inner.flush() is not reached
FlushErrCalls == calls

\* inner's write_all fails (one of its writes returns Err): `?` returns the error
FlushWriteAllErr ==
    /\ who = "writer" /\ wpc = "flush_write_all"
    /\ CanFail
    /\ errs' = errs + 1
    /\ pos' = FlushErrPos
    /\ calls' = FlushErrCalls
    /\ torn' = (torn \/ wa > 0)
    /\ wa' = 0
    /\ ret' = Ret("flush", "write_all", FALSE, 0, <<>>)
    /\ wpc' = "idle"
    /\ UNCHANGED <<who, inner, buf, src, new_pos, cursor, accepted, pos0, held0,
                   retry, rvars>>

\* pos == 0: flush goes straight to self.inner.flush().await
FlushEmptyCall ==
    /\ WIdle
    /\ pos = 0
    /\ Enter(<<>>, LastFailed("flush"))
    /\ calls' = <<Call("flush", <<>>)>>
    /\ wpc' = "flush_inner"
    /\ UNCHANGED <<who, inner, buf, pos, new_pos, wa, cursor, accepted, torn, rvars,
                   ret, errs>>

\* self.inner.flush().await returns Ok(()): flush returns it
FlushInnerOk ==
    /\ who = "writer" /\ wpc = "flush_inner"
    /\ ret' = Ret("flush", "flush", TRUE, 0, <<>>)
    /\ wpc' = "idle"
    /\ UNCHANGED <<who, inner, buf, pos, src, new_pos, wa, cursor, accepted, pos0,
                   held0, torn, retry, rvars, calls, errs>>

\* self.inner.flush().await returns Err(e): flush returns it
FlushInnerErr ==
    /\ who = "writer" /\ wpc = "flush_inner"
    /\ CanFail
    /\ errs' = errs + 1
    /\ ret' = Ret("flush", "flush", FALSE, 0, <<>>)
    /\ wpc' = "idle"
    /\ UNCHANGED <<who, inner, buf, pos, src, new_pos, wa, cursor, accepted, pos0,
                   held0, torn, retry, rvars, calls>>

\* ------------------------------------------------- BufferedWrite: the rest
\* pub fn clear(&mut self) { self.pos = 0; }   the buffered bytes are dropped
Clear ==
    /\ WIdle
    /\ Enter(<<>>, FALSE)
    /\ pos' = 0
    /\ accepted' = Take(accepted, Len(accepted) - pos)
    /\ ret' = Ret("clear", "none", TRUE, 0, <<>>)
    /\ calls' = <<>>
    /\ UNCHANGED <<who, inner, buf, wpc, new_pos, wa, cursor, torn, rvars, errs>>

\* match self.pos { 0 => Ok(&mut self.inner), _ => Err(BypassError) }
WBypassGranted(p) == p = 0

WBypass ==
    /\ WIdle
    /\ Enter(<<>>, FALSE)
    /\ ret' = Ret("bypass", "none", WBypassGranted(pos), 0, <<>>)
    /\ calls' = <<>>
    /\ UNCHANGED <<who, inner, buf, pos, wpc, new_pos, wa, cursor, accepted, torn,
                   rvars, errs>>

\* match self.pos { 0 => Ok((&mut self.inner, self.buf)), _ => Err(BypassError) }
WBypassWithBufGranted(p) == p = 0

WBypassWithBuf ==
    /\ WIdle
    /\ Enter(<<>>, FALSE)
    /\ ret' = Ret("bypass_with_buf", "none", WBypassWithBufGranted(pos), 0, <<>>)
    /\ calls' = <<>>
    /\ UNCHANGED <<who, inner, buf, pos, wpc, new_pos, wa, cursor, accepted, torn,
                   rvars, errs>>

\* faulty variant of SplitGranted: split guarded like bypass
SplitGranted_Guarded(p) == p = 0

\* pub fn split(&mut self) -> (&mut T, &mut [u8], usize) { (&mut self.inner, self.buf, self.pos) }
\* no Result: the components and pos are returned whatever pos is
SplitGranted(p) == TRUE

Split ==
    /\ WIdle
    /\ Enter(<<>>, FALSE)
    /\ ret' = Ret("split", "none", SplitGranted(pos), pos, <<>>)
    /\ calls' = <<>>
    /\ UNCHANGED <<who, inner, buf, pos, wpc, new_pos, wa, cursor, accepted, torn,
                   rvars, errs>>

\* faulty variant of ReleasedInner: release writes the buffered bytes out first
ReleasedInner_Flushed == inner \o Take(buf, Min(pos, Cap))

\* what inner has received once release has returned it: what it had
ReleasedInner == inner

\* pub fn release(self) -> T { self.inner }   the writer is consumed, inner is
\* handed back whatever pos is; no write, write_all or flush of inner is called
WRelease ==
    /\ WIdle
    /\ Enter(<<>>, FALSE)
    /\ wpc' = "released"
    /\ inner' = ReleasedInner
    /\ ret' = Ret("release", "none", TRUE, 0, <<>>)
    /\ calls' = <<>>
    /\ UNCHANGED <<who, buf, pos, new_pos, wa, cursor, accepted, torn, rvars, errs>>

\* ------------------------------------------------- the inner reader
\* The bytes the inner reader yields before end-of-stream: distinct, in order.
Stream == [i \in 1..StreamLen |-> i]

\* inner.read(buf) with buf.len() = len: 0 at end-of-stream or for an empty buf,
\* otherwise some n with 0 < n <= len of the bytes still to come (a partial
\* read is not an error).
InnerReadCounts(len) ==
    IF len = 0 \/ rinner = StreamLen THEN {0} ELSE 1..Min(len, StreamLen - rinner)

\* the n bytes the inner reader hands out next
NextBytes(n) == SubSeq(Stream, rinner + 1, rinner + n)

\* ------------------------------------------------- BufferedRead: helpers
\* the lengths of the destinations the caller reads into
DstLens == 0..(Cap + 1)

\* &self.buf[self.offset..self.offset + self.available]
View(b, off, av) == SubSeq(b, off + 1, off + av)

\* inner.read(self.buf) returning n: the first n bytes of buf are overwritten
Filled(b, n) == [i \in 1..Cap |-> IF i <= n THEN Stream[rinner + i] ELSE b[i]]

\* faulty variant of ReadLen: available is taken for the end index of the
\* unread bytes instead of their count
ReadLen_EndIndex(av, d) == Min(av - offset, d)

\* let len = usize::min(self.available, buf.len());
ReadLen(av, d) == Min(av, d)

\* faulty variant of DrainOffset: offset is not advanced past the bytes copied
DrainOffset_Stuck(off, av, len) == off

\* if len < self.available { self.offset += len; } (else offset is left as it is)
DrainOffset(off, av, len) == IF len < av THEN off + len ELSE off

\* faulty variant of DrainAvailable: the buffer is taken for drained after
\* every copy
DrainAvailable_Reset(av, len) == 0

\* if len < self.available { self.available -= len; } else { self.available = 0; }
DrainAvailable(av, len) == IF len < av THEN av - len ELSE 0

\* faulty variant of ReadBypasses: a destination of exactly buf.len() is buffered
ReadBypasses_Strict(d) == d > Cap

\* faulty variant of FillOffset: the stale offset is kept for the fill
FillOffset_Stale == offset

\* self.offset = 0;  before the fill from inner
FillOffset == 0

\* faulty variant of FillAvailable: the fill is taken to have filled the buffer
FillAvailable_Full(n) == Cap

\* self.available = self.inner.read(self.buf)?;   the count inner returned
FillAvailable(n) == n

\* faulty variant of ConsumeAsserts: nothing is asserted
ConsumeAsserts_None(amt, av) == TRUE

\* assert!(amt <= self.available);
ConsumeAsserts(amt, av) == amt <= av

\* ------------------------------------------------- BufferedRead: construction
\* BufferedRead::new: offset: 0, available: 0
\* BufferedRead::new_with_data: assert!(offset + available <= buf.len());
ReaderInit ==
    /\ who = "reader"
    /\ rinner = 0
    /\ \/ offset = 0 /\ available = 0 /\ rbuf = Zeroed
       \/ \E o \in 0..Cap, a \in 0..Cap :
             /\ o + a <= Cap
             /\ offset = o /\ available = a /\ rbuf = Preloaded
    /\ preload = View(rbuf, offset, available)
    /\ rpc = "idle"
    /\ dst = 0
    /\ delivered = <<>>
    /\ off0 = offset
    /\ avail0 = available

ReaderAtRest ==
    /\ rinner = 0 /\ rbuf = Zeroed /\ offset = 0 /\ available = 0 /\ rpc = "idle"
    /\ dst = 0 /\ delivered = <<>> /\ off0 = 0 /\ avail0 = 0 /\ preload = <<>>

RIdle == who = "reader" /\ rpc = "idle"

REnter(d) ==
    /\ dst' = d
    /\ off0' = offset
    /\ avail0' = available

\* ------------------------------------------------- BufferedRead::read
\* if buf.len() >= self.buf.len()    (with available == 0) the fast path is taken
ReadBypasses(d) == d >= Cap

\* if self.available == 0 { if buf.len() >= self.buf.len() { return self.inner.read(buf); } }
\* up to the call into inner
ReadBypassCall ==
    /\ RIdle
    /\ available = 0
    /\ \E d \in DstLens : ReadBypasses(d) /\ REnter(d)
    /\ rpc' = "read_bypass"
    /\ calls' = <<Call("read", "dst")>>
    /\ UNCHANGED <<who, wvars, rinner, rbuf, offset, available, delivered, preload,
                   ret, errs>>

\* the bypassing inner.read(buf) returns Ok(n): returned unchanged
ReadBypassOk ==
    /\ who = "reader" /\ rpc = "read_bypass"
    /\ \E n \in InnerReadCounts(dst) :
          /\ rinner' = rinner + n
          /\ delivered' = delivered \o NextBytes(n)
          /\ ret' = Ret("read", "bypass", TRUE, n, NextBytes(n))
    /\ rpc' = "idle"
    /\ UNCHANGED <<who, wvars, rbuf, offset, available, dst, off0, avail0, preload,
                   calls, errs>>

\* the bypassing inner.read(buf) returns Err(e): returned unchanged
ReadBypassErr ==
    /\ who = "reader" /\ rpc = "read_bypass"
    /\ CanFail
    /\ errs' = errs + 1
    /\ ret' = Ret("read", "bypass", FALSE, 0, <<>>)
    /\ rpc' = "idle"
    /\ UNCHANGED <<who, wvars, rinner, rbuf, offset, available, dst, delivered, off0,
                   avail0, preload, calls>>

\* available == 0, buf.len() < self.buf.len(): self.offset = 0; self.inner.read(self.buf)
\* up to the call into inner
ReadFillCall ==
    /\ RIdle
    /\ available = 0
    /\ \E d \in DstLens : ~ReadBypasses(d) /\ REnter(d)
    /\ offset' = FillOffset
    /\ rpc' = "read_fill"
    /\ calls' = <<Call("read", "buf")>>
    /\ UNCHANGED <<who, wvars, rinner, rbuf, available, delivered, preload, ret, errs>>

\* self.available = n; then the copy out of the buffer (lines 96-107)
ReadFillOk ==
    /\ who = "reader" /\ rpc = "read_fill"
    /\ \E n \in InnerReadCounts(Cap) :
          LET b == Filled(rbuf, n)
              av == FillAvailable(n)
              len == ReadLen(av, dst)
          IN  /\ rbuf' = b
              /\ rinner' = rinner + n
              /\ offset' = DrainOffset(offset, av, len)
              /\ available' = DrainAvailable(av, len)
              /\ delivered' = delivered \o View(b, offset, len)
              /\ ret' = Ret("read", "fill", TRUE, len, View(b, offset, len))
    /\ rpc' = "idle"
    /\ UNCHANGED <<who, wvars, dst, off0, avail0, preload, calls, errs>>

\* faulty variant of FillErrAvailable: the buffer counts as filled although
\* the read failed
FillErrAvailable_Full == Cap

\* self.available = self.inner.read(self.buf)?;   on Err the `?` returns before
\* the assignment: available keeps its value
FillErrAvailable == available

\* self.inner.read(self.buf)? returns the error: available is not assigned
ReadFillErr ==
    /\ who = "reader" /\ rpc = "read_fill"
    /\ CanFail
    /\ errs' = errs + 1
    /\ available' = FillErrAvailable
    /\ ret' = Ret("read", "fill", FALSE, 0, <<>>)
    /\ rpc' = "idle"
    /\ UNCHANGED <<who, wvars, rinner, rbuf, offset, dst, delivered, off0,
                   avail0, preload, calls>>

\* available > 0: no call into inner; copy min(available, buf.len()) bytes out
ReadBuffered ==
    /\ RIdle
    /\ available > 0
    /\ \E d \in DstLens :
          LET len == ReadLen(available, d)
          IN  /\ REnter(d)
              /\ offset' = DrainOffset(offset, available, len)
              /\ available' = DrainAvailable(available, len)
              /\ delivered' = delivered \o View(rbuf, offset, len)
              /\ ret' = Ret("read", "buffered", TRUE, len, View(rbuf, offset, len))
    /\ calls' = <<>>
    /\ UNCHANGED <<who, wvars, rinner, rbuf, rpc, preload, errs>>

\* ------------------------------------------------- BufferedRead::fill_buf, consume
\* faulty variant of FillBufNeedsFill: the buffer is refilled on every call
FillBufNeedsFill_Always(av) == TRUE

\* if self.available == 0 {    fill_buf turns to inner only with nothing buffered
FillBufNeedsFill(av) == av = 0

\* if self.available == 0 { self.offset = 0; self.available = self.inner.read(self.buf)?; }
\* up to the call into inner
FillBufCall ==
    /\ RIdle
    /\ FillBufNeedsFill(available)
    /\ REnter(0)
    /\ offset' = FillOffset
    /\ rpc' = "fill_buf"
    /\ calls' = <<Call("read", "buf")>>
    /\ UNCHANGED <<who, wvars, rinner, rbuf, available, delivered, preload, ret, errs>>

\* self.available = n; Ok(&self.buf[self.offset..self.offset + self.available])
FillBufOk ==
    /\ who = "reader" /\ rpc = "fill_buf"
    /\ \E n \in InnerReadCounts(Cap) :
          /\ rbuf' = Filled(rbuf, n)
          /\ rinner' = rinner + n
          /\ available' = FillAvailable(n)
          /\ ret' = Ret("fill_buf", "fill", TRUE, FillAvailable(n),
                        View(Filled(rbuf, n), offset, FillAvailable(n)))
    /\ rpc' = "idle"
    /\ UNCHANGED <<who, wvars, offset, dst, delivered, off0, avail0, preload, calls,
                   errs>>

\* self.inner.read(self.buf)? returns the error: available is not assigned
FillBufErr ==
    /\ who = "reader" /\ rpc = "fill_buf"
    /\ CanFail
    /\ errs' = errs + 1
    /\ available' = FillErrAvailable
    /\ ret' = Ret("fill_buf", "fill", FALSE, 0, <<>>)
    /\ rpc' = "idle"
    /\ UNCHANGED <<who, wvars, rinner, rbuf, offset, dst, delivered, off0,
                   avail0, preload, calls>>

\* available > 0: Ok(&self.buf[self.offset..self.offset + self.available])
FillBufView ==
    /\ RIdle
    /\ ~FillBufNeedsFill(available)
    /\ REnter(0)
    /\ ret' = Ret("fill_buf", "buffered", TRUE, available, View(rbuf, offset, available))
    /\ calls' = <<>>
    /\ UNCHANGED <<who, wvars, rinner, rbuf, offset, available, rpc, delivered,
                   preload, errs>>

\* assert!(amt <= self.available); self.offset += amt; self.available -= amt;
\* the consumed bytes are those the caller took from the view
Consume ==
    /\ RIdle
    /\ \E amt \in 0..(Cap + 1) :
          /\ ConsumeAsserts(amt, available)
          /\ REnter(amt)
          /\ delivered' = delivered \o View(rbuf, offset, amt)
          /\ offset' = offset + amt
          /\ available' = available - amt
          /\ ret' = Ret("consume", "none", TRUE, amt, <<>>)
    /\ calls' = <<>>
    /\ UNCHANGED <<who, wvars, rinner, rbuf, rpc, preload, errs>>

\* assert!(amt <= self.available) fails: the call panics, nothing is changed
ConsumePanic ==
    /\ RIdle
    /\ \E amt \in 0..(Cap + 1) :
          /\ ~ConsumeAsserts(amt, available)
          /\ REnter(amt)
    /\ rpc' = "panicked"
    /\ calls' = <<>>
    /\ UNCHANGED <<who, wvars, rinner, rbuf, offset, available, delivered, preload,
                   ret, errs>>

\* pub fn release(self) -> T { self.inner }   the reader is consumed, inner is
\* handed back whatever is buffered; no call into inner
RRelease ==
    /\ RIdle
    /\ REnter(0)
    /\ rpc' = "released"
    /\ ret' = Ret("release", "none", TRUE, 0, <<>>)
    /\ calls' = <<>>
    /\ UNCHANGED <<who, wvars, rinner, rbuf, offset, available, delivered, preload,
                   errs>>

\* faulty variant of RBypassGranted: the reader hands out inner whatever is buffered
RBypassGranted_Always(av) == TRUE

\* match self.available { 0 => Ok(&mut self.inner), _ => Err(BypassError) }
RBypassGranted(av) == av = 0

RBypass ==
    /\ RIdle
    /\ REnter(0)
    /\ ret' = Ret("bypass", "none", RBypassGranted(available), 0, <<>>)
    /\ calls' = <<>>
    /\ UNCHANGED <<who, wvars, rinner, rbuf, offset, available, rpc, delivered,
                   preload, errs>>

RNext ==
    \/ ReadBypassCall
    \/ ReadBypassOk
    \/ ReadBypassErr
    \/ ReadFillCall
    \/ ReadFillOk
    \/ ReadFillErr
    \/ ReadBuffered
    \/ FillBufCall
    \/ FillBufOk
    \/ FillBufErr
    \/ FillBufView
    \/ Consume
    \/ ConsumePanic
    \/ RBypass
    \/ RRelease

WNext ==
    \/ WriteEmpty
    \/ WriteBypassCall
    \/ WriteBypassOk
    \/ WriteBypassErr
    \/ WritePanic
    \/ WriteBuffer
    \/ WriteFullCall
    \/ WriteCommitOk
    \/ WriteCommitErr
    \/ FlushCall
    \/ FlushWriteAllOk
    \/ FlushWriteAllErr
    \/ FlushEmptyCall
    \/ FlushInnerOk
    \/ FlushInnerErr
    \/ Clear
    \/ WBypass
    \/ WBypassWithBuf
    \/ Split
    \/ WRelease

\* ------------------------------------------------- specifications
ObsInit == ret = NoRet /\ calls = <<>> /\ errs = 0

\* a BufferedWrite built by new, or by new_with_data with written <= buf.len()
WInit == WriterInit(Cap) /\ ReaderAtRest /\ ObsInit

WSpec == WInit /\ [][WNext]_vars

\* a BufferedWrite built by new, or by new_with_data with any written: the
\* constructor checks nothing, so written = buf.len() + 1 is accepted too
WAnyInit == WriterInit(Cap + 1) /\ ReaderAtRest /\ ObsInit

WAnyNext == WNext \/ FlushPanic

WAnySpec == WAnyInit /\ [][WAnyNext]_vars

\* a BufferedRead built by new, or by a new_with_data that passed its assertion
RInit == ReaderInit /\ WriterAtRest /\ ObsInit

RSpec == RInit /\ [][RNext]_vars

\* either wrapper
Init == WInit \/ RInit

Next == WNext \/ RNext

Spec == Init /\ [][Next]_vars

\* ------------------------------------------------- properties: helpers
\* s ends with suf
EndsWith(s, suf) ==
    /\ Len(suf) <= Len(s)
    /\ SubSeq(s, Len(s) - Len(suf) + 1, Len(s)) = suf

\* every element of s occurs in t, in the same order
RECURSIVE IsSubseq(_, _)
IsSubseq(s, t) ==
    IF s = <<>> THEN TRUE
    ELSE IF t = <<>> THEN FALSE
    ELSE IF Head(s) = Head(t) THEN IsSubseq(Tail(s), Tail(t))
    ELSE IsSubseq(s, Tail(t))

\* the writer is between calls
WQuiet == who = "writer" /\ wpc = "idle"

\* the reader is between calls
RQuiet == who = "reader" /\ rpc = "idle"

\* ------------------------------------------------- C1
\* C1 (writer round-trip): whatever the chunking of the submitted slices and
\* however many bytes inner takes per write, as long as no write_all was cut
\* short by an error, the bytes inner has received followed by the bytes still
\* buffered are exactly the bytes the writer accepted, in order; so after a
\* successful flush inner holds exactly the concatenation of what was submitted.
C1_RoundTrip ==
    (WQuiet /\ ~torn) =>
        /\ inner \o Take(buf, pos) = accepted
        /\ (ret.op = "flush" /\ ret.ok => pos = 0 /\ inner = accepted)

\* all of Src went through in chunks, a final flush wrote the buffered rest
C1_Witness ==
    /\ WQuiet /\ ~torn
    /\ ret.op = "flush" /\ ret.ok /\ Len(calls) = 2
    /\ cursor = SrcLen
    /\ inner = Src

\* ------------------------------------------------- C2
\* C2 (no data loss on retry): when the inner write of a buffer-full commit
\* failed and the caller resubmits the same slice, and the resubmitted write
\* succeeds, it takes the commit path again and accepts the same number of
\* bytes; inner's bytes followed by the buffered ones end with the bytes
\* buffered before the failed call followed by the accepted part of the slice,
\* and (no write_all having been cut short) they are exactly the accepted
\* bytes: nothing lost, nothing twice.  The resubmitted write is never refused
\* by the assertion buffered > 0: the failed call left room for it.
C2_RetryAfterCommitError ==
    /\ (WQuiet /\ retry /\ ret.op = "write" /\ ret.ok) =>
          /\ ret.path = "commit"
          /\ ret.n = Min(Len(src), Cap - pos0)
          /\ EndsWith(inner \o Take(buf, pos), held0 \o Take(src, ret.n))
          /\ (~torn => inner \o Take(buf, pos) = accepted)
    /\ (who = "writer" /\ retry /\ src # <<>>) => wpc # "panicked"

\* a resubmitted write went through after the failure, with bytes buffered
\* before it, and inner took the whole buffer
C2_Witness ==
    /\ WQuiet /\ retry /\ ret.op = "write" /\ ret.ok
    /\ pos0 > 0 /\ errs > 0
    /\ pos = 0 /\ inner = accepted

\* ------------------------------------------------- C3
\* C3 (write failure path): when the inner write of the buffer-full commit
\* returns an error, write returns an error, pos is what it was before the
\* call, and the first pos bytes of the buffer are what they were.
C3_WriteFailureKeepsPos ==
    [][(who = "writer" /\ wpc = "write_commit" /\ errs' = errs + 1) =>
          /\ wpc' = "idle"
          /\ ret' = Ret("write", "commit", FALSE, 0, <<>>)
          /\ pos' = pos0 /\ pos' # new_pos
          /\ Take(buf', pos') = held0
          /\ inner' = inner]_vars

\* a commit failed with bytes already in the buffer
C3_Witness ==
    /\ WQuiet /\ ret.op = "write" /\ ret.path = "commit" /\ ~ret.ok
    /\ pos0 > 0 /\ pos = pos0 /\ Take(buf, pos) = held0

\* ------------------------------------------------- C4
\* C4 (retrying a failed flush is safe): when a flush is retried after a flush
\* that failed, and the retry succeeds, inner has received every accepted
\* byte exactly once.
C4_FlushRetryExactlyOnce ==
    (WQuiet /\ retry /\ ret.op = "flush" /\ ret.ok) => inner = accepted

\* ------------------------------------------------- C5
\* C5 (flush failure): when the write-all of buf[..pos] fails, flush returns
\* an error, pos is unchanged, and inner's flush was not called by this flush.
C5_FlushFailure ==
    [][(who = "writer" /\ wpc = "flush_write_all" /\ errs' = errs + 1) =>
          /\ wpc' = "idle"
          /\ ret' = Ret("flush", "write_all", FALSE, 0, <<>>)
          /\ pos' = pos0 /\ pos' > 0
          /\ Take(buf', pos') = held0
          /\ calls' = <<Call("write_all", held0)>>]_vars

\* a flush failed after inner had taken part of the buffered bytes
C5_Witness ==
    /\ WQuiet /\ ret.op = "flush" /\ ret.path = "write_all" /\ ~ret.ok
    /\ torn /\ pos = pos0 /\ pos > 1

\* ------------------------------------------------- C6
\* C6 (flush success): while the write-all is running pos is untouched; pos is
\* 0 once inner's flush is called; a flush that returns Ok leaves pos = 0, has
\* called write_all with exactly buf[..pos] (only when pos > 0) and then
\* inner's flush, inner's bytes end with those bytes, and every accepted byte
\* has reached inner, in order; a flush that fails in inner's flush returns
\* that failure after the bytes were written.
C6_FlushSuccess ==
    /\ (who = "writer" /\ wpc = "flush_write_all") => pos = pos0 /\ pos > 0
    /\ (who = "writer" /\ wpc = "flush_inner") => pos = 0
    /\ (WQuiet /\ ret.op = "flush" /\ ret.path = "flush") =>
          /\ pos = 0
          /\ calls = IF pos0 > 0
                        THEN <<Call("write_all", held0), Call("flush", <<>>)>>
                        ELSE <<Call("flush", <<>>)>>
          /\ EndsWith(inner, held0)
          /\ IsSubseq(accepted, inner)
          /\ (~torn => inner = accepted)

\* a flush with bytes buffered returned Ok
C6_Witness ==
    /\ WQuiet /\ ret.op = "flush" /\ ret.ok
    /\ pos0 > 1 /\ pos = 0 /\ Len(calls) = 2 /\ EndsWith(inner, held0)

\* ------------------------------------------------- C7
\* C7 (bypass guard): BufferedRead::bypass succeeds iff available = 0;
\* BufferedWrite::bypass and bypass_with_buf succeed iff pos = 0; granted or
\* refused, the call changes none of offset, available, pos.
C7_BypassGuard ==
    /\ (who = "reader" /\ rpc = "idle" /\ ret.op = "bypass") =>
          /\ ret.ok <=> available = 0
          /\ offset = off0 /\ available = avail0
    /\ (WQuiet /\ ret.op \in {"bypass", "bypass_with_buf"}) =>
          /\ ret.ok <=> pos = 0
          /\ pos = pos0

\* a reader holding unread bytes refused the bypass
C7_Witness ==
    /\ who = "reader" /\ rpc = "idle" /\ ret.op = "bypass"
    /\ available > 0 /\ ~ret.ok

\* ------------------------------------------------- C8
\* C8 as stated (split guard): split succeeds iff pos = 0.
C8_SplitGuarded ==
    (WQuiet /\ ret.op = "split") => (ret.ok <=> pos = 0)

\* C8 as amended: split returns inner, the buffer and the current pos whatever
\* pos is; it never fails and leaves pos unchanged.
C8_SplitUnconditional ==
    (WQuiet /\ ret.op = "split") => ret.ok /\ ret.n = pos /\ pos = pos0

\* split was granted while bytes were buffered
C8_Witness ==
    WQuiet /\ ret.op = "split" /\ ret.ok /\ pos > 0 /\ ret.n = pos

\* ------------------------------------------------- C9
\* C9 (reader invariant): offset + available <= buf.len() in every state,
\* also after errors and partial reads of inner; and while a fill from inner
\* is under way (it is started only with available = 0) offset is 0.
C9_ReaderInvariant ==
    who = "reader" =>
        /\ offset >= 0 /\ available >= 0
        /\ offset + available <= Cap
        /\ rpc \in {"read_fill", "fill_buf"} => offset = 0 /\ available = 0

\* a fill under way that started from a stale, non-zero offset
C9_Witness ==
    /\ who = "reader" /\ rpc \in {"read_fill", "fill_buf"}
    /\ off0 = Cap /\ offset = 0 /\ errs > 0

\* ------------------------------------------------- C10
\* C10 (writer invariant): 0 <= pos <= buf.len() in every state reachable from
\* new or new_with_data(inner, buf, written).
C10_WriterPosBound ==
    who = "writer" => 0 <= pos /\ pos <= Cap

\* ------------------------------------------------- C11
\* C11 (read bypass): a read issued with available = 0 into a destination of
\* at least buf.len() bytes takes the bypass path: it makes exactly one read
\* call into inner, with the caller's destination; it returns what that call
\* returned (the count and the bytes inner handed out, or the error); no byte
\* of the internal buffer is written; offset and available are unchanged.
C11_ReadBypass ==
    [][ /\ (RQuiet /\ rpc' \in {"read_bypass", "read_fill"} /\ dst' >= Cap) =>
              /\ rpc' = "read_bypass"
              /\ calls' = <<Call("read", "dst")>>
              /\ rbuf' = rbuf /\ offset' = offset /\ available' = available
              /\ rinner' = rinner
        /\ (who = "reader" /\ rpc = "read_bypass") =>
              /\ rpc' = "idle" /\ ret'.op = "read" /\ ret'.path = "bypass"
              /\ calls' = calls /\ Len(calls) = 1
              /\ rbuf' = rbuf /\ offset' = offset /\ available' = available
              /\ offset' = off0 /\ available' = avail0 /\ avail0 = 0
              /\ ret'.ok <=> errs' = errs
              /\ ret'.ok => /\ ret'.n = rinner' - rinner
                            /\ ret'.n <= dst
                            /\ ret'.data = SubSeq(Stream, rinner + 1, rinner')
                            /\ delivered' = delivered \o ret'.data
              /\ ~ret'.ok => rinner' = rinner /\ delivered' = delivered
      ]_vars

\* a bypassing read of exactly buf.len() bytes returned a partial count while
\* the reader held a stale offset
C11_Witness ==
    /\ RQuiet /\ ret.op = "read" /\ ret.path = "bypass" /\ ret.ok
    /\ dst = Cap /\ ret.n = 2 /\ off0 > 0 /\ offset = off0 /\ Len(calls) = 1

\* ------------------------------------------------- C12
\* C12 (write bypass): a write of a non-empty slice of at least buf.len()
\* bytes issued with pos = 0 takes the bypass path: it makes exactly one write
\* call into inner, with the caller's slice; it returns what that call
\* returned (the count inner took, or the error); no byte is copied into the
\* internal buffer; pos stays 0.
C12_WriteBypass ==
    [][ /\ (WQuiet /\ wpc' \in {"write_bypass", "write_commit"} /\ pos = 0
                   /\ Len(src') >= Cap) =>
              /\ wpc' = "write_bypass"
              /\ calls' = <<Call("write", src')>>
              /\ buf' = buf /\ pos' = 0 /\ inner' = inner
        /\ (WQuiet /\ wpc' = "idle" /\ pos = 0 /\ src' # <<>>) =>
              Len(src') < Cap
        /\ (who = "writer" /\ wpc = "write_bypass") =>
              /\ wpc' = "idle" /\ ret'.op = "write" /\ ret'.path = "bypass"
              /\ calls' = calls /\ calls = <<Call("write", src)>>
              /\ buf' = buf /\ pos' = pos /\ pos = 0 /\ pos0 = 0
              /\ ret'.ok <=> errs' = errs
              /\ ret'.ok => /\ ret'.n = Len(inner') - Len(inner)
                            /\ ret'.n \in 1..Len(src)
                            /\ inner' = inner \o SubSeq(src, 1, ret'.n)
              /\ ~ret'.ok => inner' = inner
      ]_vars

\* a bypassing write of exactly buf.len() bytes of which inner took a part
C12_Witness ==
    /\ WQuiet /\ ret.op = "write" /\ ret.path = "bypass" /\ ret.ok
    /\ Len(src) = Cap /\ ret.n = 2 /\ pos = 0 /\ Len(inner) = 2

\* ------------------------------------------------- C13
\* C13 (peek idempotence): the view a successful fill_buf returns is
\* buf[offset..offset+available] of the state it leaves; a second fill_buf with
\* no read or consume in between returns the same bytes; with available > 0
\* fill_buf makes no call into inner and changes neither the buffer nor offset
\* nor available, so no unread byte is dropped.
C13_PeekIdempotent ==
    [][ /\ (who = "reader" /\ rpc' = "idle" /\ ret'.op = "fill_buf" /\ ret'.ok) =>
              /\ ret'.data = SubSeq(rbuf', offset' + 1, offset' + available')
              /\ ret'.n = available' /\ Len(ret'.data) = ret'.n
        /\ (who = "reader" /\ ret.op = "fill_buf" /\ ret.ok
                 /\ rpc' = "idle" /\ ret'.op = "fill_buf" /\ ret'.ok) =>
              /\ ret'.data = ret.data /\ ret'.n = ret.n
              /\ delivered' = delivered
        /\ (RQuiet /\ rpc' = "fill_buf") => available = 0
        /\ (RQuiet /\ available > 0 /\ rpc' = "idle" /\ ret'.op = "fill_buf") =>
              /\ ret'.ok /\ ret'.path = "buffered" /\ calls' = <<>>
              /\ rbuf' = rbuf /\ offset' = offset /\ available' = available
              /\ rinner' = rinner
      ]_vars

\* fill_buf returned a view of two unread bytes that start past the front of
\* the buffer, without a call into inner, after inner had been read from
C13_Witness ==
    /\ RQuiet /\ ret.op = "fill_buf" /\ ret.ok /\ ret.path = "buffered"
    /\ offset = 1 /\ available = 2 /\ rinner > 0 /\ ret.data = <<rbuf[2], rbuf[3]>>

\* ------------------------------------------------- C14
\* C14 (consume discipline): a consume(amt) that returns had amt <= available;
\* it advanced offset by amt and reduced available by amt, so offset +
\* available is what it was. A consume(amt) with amt > available panics on its
\* assertion and changes nothing: it is never carried out with a clamped
\* amount.
C14_ConsumeDiscipline ==
    /\ (RQuiet /\ ret.op = "consume") =>
          /\ ret.ok /\ ret.n = dst /\ dst <= avail0
          /\ offset = off0 + dst /\ available = avail0 - dst
          /\ offset + available = off0 + avail0
          /\ calls = <<>>
    /\ (who = "reader" /\ rpc = "panicked") =>
          /\ dst > avail0
          /\ offset = off0 /\ available = avail0
          /\ calls = <<>>

\* a consume of two of three buffered bytes returned, and the next consume,
\* of two bytes with one left, panicked
C14_Witness ==
    /\ who = "reader" /\ rpc = "panicked"
    /\ ret.op = "consume" /\ ret.n = 2 /\ offset = 2 /\ available = 1
    /\ dst = 2 /\ rinner > 0

\* ------------------------------------------------- C15
\* C15 (reader ordering): in every state of a reader, whatever reads (buffered,
\* filling or bypassing), fill_bufs and consumes were made and however short
\* inner's reads were, the bytes delivered to the caller followed by
\* buf[offset..offset+available] are exactly the bytes obtained from inner so
\* far, in inner's order (for a reader made by new_with_data: the bytes it was
\* given, then those obtained from inner). So the delivered bytes are a prefix
\* of inner's bytes with none skipped, repeated or reordered.
C15_ReaderOrdering ==
    who = "reader" =>
        /\ delivered \o SubSeq(rbuf, offset + 1, offset + available)
              = preload \o SubSeq(Stream, 1, rinner)
        /\ Len(delivered) <= Len(preload) + rinner
        /\ delivered = SubSeq(preload \o Stream, 1, Len(delivered))

\* the whole stream and two preloaded bytes were delivered, the last of them
\* through fill_buf and consume, after a read error
C15_Witness ==
    /\ RQuiet /\ Len(preload) = 2 /\ rinner = StreamLen
    /\ delivered = preload \o Stream
    /\ ret.op = "consume" /\ ret.n > 0 /\ available = 0 /\ errs > 0

\* ------------------------------------------------- C16
\* C16 (release never flushes): release is available to the writer and to the
\* reader between any two calls, whatever pos or available is; it returns
\* inner and makes no call into it. Inner has received nothing more when
\* release returns, so the pos bytes the writer was holding are not in inner:
\* those bytes are lost to it.
C16_ReleaseNeverFlushes ==
    /\ [](WQuiet => ENABLED WRelease)
    /\ [](RQuiet => ENABLED RRelease)
    /\ [][ /\ (who = "writer" /\ wpc' = "released") =>
                 /\ ret'.op = "release" /\ ret'.ok /\ calls' = <<>>
                 /\ inner' = inner /\ pos' = pos /\ buf' = buf
                 /\ pos0' = pos
                 /\ ~torn => /\ inner' \o SubSeq(buf, 1, pos) = accepted
                             /\ Len(inner') = Len(accepted) - pos
           /\ (who = "reader" /\ rpc' = "released") =>
                 /\ ret'.op = "release" /\ ret'.ok /\ calls' = <<>>
                 /\ rinner' = rinner /\ rbuf' = rbuf
                 /\ offset' = offset /\ available' = available
                 /\ delivered' = delivered
        ]_vars

\* the writer was released while it held two accepted bytes that inner never
\* received
C16_Witness ==
    /\ who = "writer" /\ wpc = "released" /\ pos = 2 /\ ~torn
    /\ Len(accepted) = Len(inner) + 2 /\ Len(inner) > 0 /\ ret.op = "release"

\* ------------------------------------------------- C17
\* C17 (end-of-stream): when a read finds nothing buffered and inner's read
\* returns 0, the read returns 0; when inner's read returns at least one byte
\* and the destination is not empty, the read returns at least 1. A read into
\* a non-empty destination that returns Ok(0) had nothing buffered and made
\* the one call into inner that returned 0 (inner at its end-of-stream); a
\* read into a non-empty destination with available > 0 returns at least 1.
C17_EndOfStream ==
    [][ /\ (who = "reader" /\ rpc \in {"read_bypass", "read_fill"}
                 /\ errs' = errs) =>
              /\ ret'.op = "read" /\ ret'.ok /\ avail0 = 0
              /\ rinner' = rinner => ret'.n = 0 /\ available' = 0
              /\ (rinner' > rinner /\ dst > 0) => ret'.n >= 1
        /\ (who = "reader" /\ rpc' = "idle" /\ ret'.op = "read" /\ ret'.ok
                 /\ dst' > 0 /\ ret'.n = 0) =>
              /\ avail0' = 0 /\ available' = 0
              /\ Len(calls') = 1 /\ rpc \in {"read_bypass", "read_fill"}
              /\ rinner' = rinner /\ rinner = StreamLen
        /\ (who = "reader" /\ rpc' = "idle" /\ ret'.op = "read"
                 /\ dst' > 0 /\ avail0' > 0) =>
              ret'.ok /\ ret'.n >= 1
      ]_vars

\* a read into a one-byte destination returned 0: the buffer was empty and
\* inner, asked for buf.len() bytes, was at its end
C17_Witness ==
    /\ RQuiet /\ ret.op = "read" /\ ret.ok /\ ret.n = 0 /\ dst = 1
    /\ ret.path = "fill" /\ rinner = StreamLen /\ Len(delivered) = StreamLen

\* ------------------------------------------------- C18
\* C18 (buffered read drain): a read issued with available > 0 makes no call
\* into inner whatever the length of the destination (also when it is
\* buf.len() or more); it copies the first len = min(available, dst.len())
\* bytes of buf[offset..] to the caller and returns len; if len < available,
\* offset has grown by len and available has shrunk by len, otherwise
\* available is 0 (and offset is left as it was).
C18_BufferedReadDrain ==
    (RQuiet /\ ret.op = "read" /\ avail0 > 0) =>
        /\ ret.ok /\ ret.path = "buffered" /\ calls = <<>>
        /\ ret.n = (IF avail0 <= dst THEN avail0 ELSE dst)
        /\ ret.data = SubSeq(rbuf, off0 + 1, off0 + ret.n)
        /\ ret.n < avail0 => offset = off0 + ret.n /\ available = avail0 - ret.n
        /\ ret.n >= avail0 => offset = off0 /\ available = 0

\* a read into a destination longer than the buffer, with two bytes buffered
\* behind a consumed one: the two bytes are returned, inner is not called
C18_Witness ==
    /\ RQuiet /\ ret.op = "read" /\ ret.path = "buffered" /\ dst = Cap + 1
    /\ avail0 = 2 /\ off0 = 1 /\ ret.n = 2 /\ available = 0 /\ rinner = Cap

\* ------------------------------------------------- C19
\* C19 (reader fill): a read issued with available = 0 into a destination
\* shorter than buf.len() sets offset to 0 and makes exactly one read call
\* into inner, with the internal buffer as destination. When that call
\* returns n (n <= buf.len(), possibly less), the n bytes are in buf[..n], and
\* the read goes on from offset = 0 and available = n: it returns
\* len = min(n, dst.len()) bytes of buf[..len] and leaves offset = len,
\* available = n - len (or available = 0 when len = n). Inner is not asked
\* again to fill the buffer: no read and no fill_buf makes more than one call
\* into inner.
C19_ReaderFill ==
    [][ /\ (RQuiet /\ rpc' \in {"read_bypass", "read_fill"} /\ available = 0
                 /\ dst' < Cap) =>
              /\ rpc' = "read_fill"
              /\ calls' = <<Call("read", "buf")>>
              /\ offset' = 0 /\ available' = 0
              /\ rbuf' = rbuf /\ rinner' = rinner
        /\ (who = "reader" /\ rpc = "read_fill") =>
              /\ rpc' = "idle" /\ ret'.op = "read" /\ ret'.path = "fill"
              /\ calls' = calls /\ calls = <<Call("read", "buf")>>
              /\ offset = 0 /\ avail0 = 0 /\ dst < Cap
              /\ ret'.ok <=> errs' = errs
              /\ ret'.ok =>
                    LET n == rinner' - rinner
                        len == IF n <= dst THEN n ELSE dst
                    IN  /\ n \in 0..Cap
                        /\ SubSeq(rbuf', 1, n) = SubSeq(Stream, rinner + 1, rinner')
                        /\ \A i \in (n + 1)..Cap : rbuf'[i] = rbuf[i]
                        /\ ret'.n = len
                        /\ ret'.data = SubSeq(rbuf', 1, len)
                        /\ offset' + available' = (IF len < n THEN n ELSE 0)
                        /\ available' = n - len
              /\ ~ret'.ok => /\ rinner' = rinner /\ rbuf' = rbuf
                             /\ offset' = 0 /\ available' = 0
        /\ (who = "reader" /\ rpc = "fill_buf" /\ errs' = errs) =>
              /\ offset' = 0 /\ available' = rinner' - rinner
              /\ calls' = calls /\ Len(calls) = 1
        /\ who = "reader" => Len(calls') <= 1
      ]_vars

\* a filling read into a one-byte destination: inner returned two bytes
\* although the buffer has room for more and more were to come; one byte was
\* returned, one is left at offset 1
C19_Witness ==
    /\ RQuiet /\ ret.op = "read" /\ ret.path = "fill" /\ ret.ok /\ dst = 1
    /\ ret.n = 1 /\ offset = 1 /\ available = 1 /\ rinner = 2 /\ off0 > 0
    /\ Len(calls) = 1

\* ------------------------------------------------- C20
\* C20 (buffered write accumulation): a write of a non-empty slice that does
\* not bypass and returns Ok returns buffered = min(src.len(), buf.len() - pos),
\* the number of bytes of src it copied behind the pos bytes already held.
\* The bypass is taken only from pos = 0: with pos > 0 a slice of buf.len() or
\* more bytes is buffered too, and only its first buf.len() - pos bytes are
\* accepted. If pos + buffered < buf.len(), pos becomes pos + buffered and no
\* call into inner is made; a call into inner is made only when the buffer
\* has become exactly full, and then exactly one: a write of the full buffer.
C20_WriteAccumulates ==
    /\ (who = "writer" /\ wpc = "write_bypass") => pos0 = 0 /\ pos = 0
    /\ (who = "writer" /\ wpc = "write_commit") =>
          /\ new_pos = Cap /\ pos = pos0
          /\ new_pos = pos0 + (IF Len(src) <= Cap - pos0 THEN Len(src) ELSE Cap - pos0)
          /\ buf = held0 \o SubSeq(src, 1, Cap - pos0)
          /\ calls = <<Call("write", buf)>>
    /\ (WQuiet /\ ret.op = "write" /\ pos0 > 0 /\ src # <<>>) =>
          ret.path \in {"buffer", "commit"}
    /\ (WQuiet /\ ret.op = "write" /\ ret.path \in {"buffer", "commit"}) =>
          LET buffered == IF Len(src) <= Cap - pos0 THEN Len(src) ELSE Cap - pos0
          IN  /\ src # <<>> /\ ~(pos0 = 0 /\ Len(src) >= Cap)
              /\ buffered > 0
              /\ ret.ok => ret.n = buffered
              /\ ret.path = "buffer" <=> pos0 + buffered < Cap
              /\ ret.path = "buffer" =>
                    /\ ret.ok /\ calls = <<>>
                    /\ pos = pos0 + buffered
                    /\ SubSeq(buf, 1, pos) = held0 \o SubSeq(src, 1, buffered)
              /\ ret.path = "commit" =>
                    /\ pos0 + buffered = Cap
                    /\ calls = <<Call("write", held0 \o SubSeq(src, 1, buffered))>>

\* a write of buf.len() bytes with one byte held: it did not bypass, took the
\* first two bytes of the slice and made the one write of the full buffer
C20_Witness ==
    /\ WQuiet /\ ret.op = "write" /\ ret.path = "commit" /\ ret.ok
    /\ pos0 = 1 /\ Len(src) = Cap /\ ret.n = Cap - 1 /\ Len(calls) = 1
    /\ cursor = Cap

\* ------------------------------------------------- C21
\* C21 (partial commit): when the write of the exactly full buffer
\* (new_pos = buf.len()) returns written, inner has received buf[..written]
\* and the write returns buffered. If written < new_pos the tail
\* buf[written..new_pos] is at buf[..new_pos - written], in the same order, and
\* pos = new_pos - written; if written = new_pos, pos = 0. Either way inner's
\* bytes followed by buf[..pos] are what inner's bytes followed by the full
\* buffer were before: the bytes just copied from src are kept, and unless an
\* earlier flush was cut short they are all the bytes accepted so far.
C21_PartialCommit ==
    [][ (who = "writer" /\ wpc = "write_commit" /\ errs' = errs) =>
           LET written == Len(inner') - Len(inner)
               buffered == IF Len(src) <= Cap - pos0 THEN Len(src) ELSE Cap - pos0
           IN  /\ new_pos = Cap /\ written \in 1..new_pos
               /\ inner' = inner \o SubSeq(buf, 1, written)
               /\ wpc' = "idle" /\ ret'.op = "write" /\ ret'.ok
               /\ ret'.n = buffered
               /\ accepted' = accepted \o SubSeq(src, 1, buffered)
               /\ written < new_pos =>
                     /\ pos' = new_pos - written
                     /\ \A i \in 1..(new_pos - written) : buf'[i] = buf[written + i]
               /\ written = new_pos => pos' = 0
               /\ inner' \o SubSeq(buf', 1, pos') = inner \o SubSeq(buf, 1, new_pos)
               /\ ~torn => inner' \o SubSeq(buf', 1, pos') = accepted'
      ]_vars

\* inner took one byte of the full buffer: the other two were moved to the
\* front, and the write returned the two bytes it had copied from src
C21_Witness ==
    /\ WQuiet /\ ret.op = "write" /\ ret.path = "commit" /\ ret.ok /\ ret.n = 2
    /\ pos0 = 1 /\ pos = Cap - 1 /\ Len(inner) = 1
    /\ <<buf[1], buf[2]>> = SubSeq(src, 1, 2) /\ ~torn

\* ------------------------------------------------- C22
\* C22 (write never panics): from new, or from new_with_data with
\* written <= buf.len(), under any sequence of calls and any behaviour of
\* inner within its contract, no write of a non-empty slice panics (a write
\* panics when it begins with pos = buf.len(), where buffered = 0).
C22_WriteNeverPanics ==
    who = "writer" => ~(wpc = "panicked" /\ src # <<>>)

\* ------------------------------------------------- C23
\* C23 (reader error path): when the call into inner made by a read or a
\* fill_buf fails, the call returns the error and nothing else: no byte is
\* delivered, inner's position and the buffer are as before, available is
\* still 0 and offset is 0 on the fill path (unchanged on the bypass path), so
\* offset + available <= buf.len(). The next read or fill_buf then cannot be
\* served from the buffer: it calls inner again, and what it returns are bytes
\* inner hands out in that call, not buffer contents left from before.
C23_ReaderErrorPath ==
    [][ /\ (who = "reader" /\ rpc \in {"read_bypass", "read_fill", "fill_buf"}
                 /\ errs' = errs + 1) =>
              /\ rpc' = "idle" /\ ~ret'.ok /\ ret'.n = 0 /\ ret'.data = <<>>
              /\ ret'.op = (IF rpc = "fill_buf" THEN "fill_buf" ELSE "read")
              /\ delivered' = delivered /\ rinner' = rinner /\ rbuf' = rbuf
              /\ available' = 0 /\ offset' = offset
              /\ rpc = "read_bypass" => offset' = off0
              /\ rpc # "read_bypass" => offset' = 0
              /\ offset' + available' <= Cap
              /\ calls' = calls /\ Len(calls) = 1
        /\ (RQuiet /\ ret.op \in {"read", "fill_buf"} /\ ~ret.ok) =>
              /\ available = 0
              /\ rpc' = "idle" => ret'.op \notin {"read", "fill_buf"}
              /\ rpc' \in {"read_bypass", "read_fill", "fill_buf"} =>
                    Len(calls') = 1 /\ delivered' = delivered
        /\ (who = "reader" /\ rpc \in {"read_bypass", "read_fill", "fill_buf"}
                 /\ ~ret.ok /\ ret'.ok) =>
              LET fresh == SubSeq(Stream, rinner + 1, rinner')
              IN  /\ ret'.data = SubSeq(fresh, 1, ret'.n)
                  /\ delivered' = delivered
                        \o (IF rpc = "fill_buf" THEN <<>> ELSE ret'.data)
      ]_vars

\* a filling read has just failed: it had started from a stale offset with
\* delivered bytes still lying in the buffer, and left offset = 0, available = 0
C23_Witness ==
    /\ RQuiet /\ ret.op = "read" /\ ret.path = "fill" /\ ~ret.ok /\ errs = 1
    /\ off0 = Cap /\ offset = 0 /\ available = 0
    /\ rbuf[1] # 0 /\ Len(delivered) = Cap /\ rinner = Cap

====
